---- MODULE Spec2Model ----
(***************************************************************************)
(* Mailchimp -> Regal.io webhook bridge (src/sync_service.py).             *)
(*                                                                         *)
(* One run of the Flask handler home() is modelled as a sequential state   *)
(* machine: the request arrives, the list metadata is fetched, the inline  *)
(* fields are extracted, the event type is dispatched, and either one      *)
(* inline event is posted or (campaign) one event per fetched recipient.   *)
(* Uncaught Python exceptions end the run in pc = "crashed".               *)
(***************************************************************************)
EXTENDS Integers, Sequences, FiniteSets, TLC

VARIABLES
    request,              \* the inbound HTTP request (method, content type, body)
    pc,                   \* position of the handler
    data,                 \* home: data (parsed body, a dict)
    event_type,           \* home: event_type
    mailchimp_list_info,  \* home: mailchimp_list_info (a dict)
    profile,              \* home: email, first_name, last_name, phone, zip_code, state
    counters,             \* home: clicked_link, opened_email, bounced_email, marked_as_spam
    bound,                \* which of event_name / email_opt_in are bound locals
    event_name,           \* home: event_name
    email_opt_in,         \* home: email_opt_in
    campaign_id,          \* home: campaign_id
    campaign_subject,     \* home: campaign_subject
    report,               \* the campaign platform's email-activity report, as pages
    recipients,           \* home: recipients
    idx,                  \* position of the for loop over recipients
    calls,                \* log of outbound HTTP calls and pauses, in order
    result,               \* the (body, status) pair the handler returned
    exception             \* the uncaught exception that ended the handler

vars == << request, pc, data, event_type, mailchimp_list_info, profile, counters,
           bound, event_name, email_opt_in, campaign_id, campaign_subject,
           report, recipients, idx, calls, result, exception >>

(***************************************************************************)
(* Bounds of the model.                                                    *)
(***************************************************************************)
\* Largest number of recipients the campaign platform holds for a campaign.
MaxAudience == 3
\* Records the campaign platform returns for a request without count/offset.
DefaultCount == 2

(***************************************************************************)
(* Python values.  Strings that go through int() are character sequences;  *)
(* every other string is atomic.  A counter value is tagged with its type. *)
(***************************************************************************)
IntVal(n) == [t |-> "int", n |-> n, s |-> << >>]
StrVal(s) == [t |-> "str", n |-> 0, s |-> s]

Digits == {"0", "1", "2", "3", "4", "5", "6", "7", "8", "9"}

DigitValue(c) ==
    CASE c = "0" -> 0 [] c = "1" -> 1 [] c = "2" -> 2 [] c = "3" -> 3
      [] c = "4" -> 4 [] c = "5" -> 5 [] c = "6" -> 6 [] c = "7" -> 7
      [] c = "8" -> 8 [] c = "9" -> 9

\* The literals int() accepts: an optional sign followed by decimal digits.
IsIntLiteral(s) ==
    LET body == IF Len(s) > 0 /\ s[1] \in {"+", "-"} THEN Tail(s) ELSE s
    IN  /\ Len(body) > 0
        /\ \A k \in 1..Len(body) : body[k] \in Digits

RECURSIVE DecimalValue(_)
DecimalValue(s) ==
    IF Len(s) = 0 THEN 0
    ELSE 10 * DecimalValue(SubSeq(s, 1, Len(s) - 1)) + DigitValue(s[Len(s)])

\* int(s) for a str s; only used where IsIntLiteral(s).
IntOf(s) ==
    IF s[1] = "-" THEN 0 - DecimalValue(Tail(s))
    ELSE IF s[1] = "+" THEN DecimalValue(Tail(s))
    ELSE DecimalValue(s)

\* dict.get(key, default)
Get(d, key, default) == IF key \in DOMAIN d THEN d[key] ELSE default

EmptyDict == [k \in {} |-> 0]

(***************************************************************************)
(* Inputs.                                                                 *)
(***************************************************************************)
Methods == {"GET", "POST"}
ContentTypes == {"application/json", "application/x-www-form-urlencoded", "text/plain"}

\* Webhook event kinds Mailchimp sends, plus a body without a type field.
EventKinds == {"subscribe", "unsubscribe", "profile", "cleaned", "upemail",
               "campaign", "open", "click", "bounce"}

ProfileKeys == {"data[email]", "data[merges][FNAME]", "data[merges][LNAME]",
                "data[merges][PHONE]", "data[merges][MMERGE12]",
                "data[merges][MMERGE21]"}

FullProfile ==
    [k \in ProfileKeys |->
        CASE k = "data[email]" -> "ann@x.io"
          [] k = "data[merges][FNAME]" -> "Ann"
          [] k = "data[merges][LNAME]" -> "Lee"
          [] k = "data[merges][PHONE]" -> "+15550100"
          [] k = "data[merges][MMERGE12]" -> "10001"
          [] k = "data[merges][MMERGE21]" -> "NY"]

CounterKeys == {"data[merges][MMERGE9]", "data[merges][MMERGE8]",
                "data[merges][MMERGE10]", "data[merges][MMERGE11]"}

S3 == << "3" >>
S35 == << "3", ".", "5" >>
Sabc == << "a", "b", "c" >>

CounterFields(c9, c8, c10, c11) ==
    [k \in CounterKeys |->
        CASE k = "data[merges][MMERGE9]" -> c9
          [] k = "data[merges][MMERGE8]" -> c8
          [] k = "data[merges][MMERGE10]" -> c10
          [] k = "data[merges][MMERGE11]" -> c11]

\* Sample merge-field contents of a webhook body.
MergeSamples ==
    { EmptyDict,
      FullProfile,
      FullProfile @@ CounterFields(S3, S3, S3, S3),
      FullProfile @@ CounterFields(S3, S35, Sabc, S3),
      FullProfile @@ CounterFields(S35, S3, S3, S3),
      CounterFields(Sabc, S3, S3, S3) }

CampaignFields == ("data[id]" :> "c42") @@ ("data[subject]" :> "Spring sale")

\* Bodies of every kind but campaign carry any of the merge samples; a campaign
\* body carries the campaign id and subject, or lacks them.
Bodies ==
    { m : m \in MergeSamples }
    \cup { ("type" :> k) @@ m : k \in EventKinds \ {"campaign"}, m \in MergeSamples }
    \cup { ("type" :> "campaign") @@ CampaignFields,
           ("type" :> "campaign"),
           ("type" :> "campaign") @@ CampaignFields @@ CounterFields(Sabc, S3, S3, S3) }

Requests == [method : Methods, content_type : ContentTypes, body : Bodies]

\* Sample list metadata documents of the campaign platform.
ListDocuments ==
    { EmptyDict,
      ("campaign_defaults" :> [from_name |-> "Shop", from_email |-> "shop@x.io",
                               subject |-> "Hello", language |-> "en"])
      @@ ("stats" :> [open_rate |-> 25, click_rate |-> 4]) }

\* Sample activity-report entries of one recipient.  An activity entry is a
\* dict; an entry without an "action" key is the empty dict.
Act(a) == [action |-> a]

RecipientSamples ==
    { ("email_address" :> "ann@x.io")
        @@ ("activity" :> << Act("open"), Act("click"), Act("click") >>),
      ("email_address" :> "ann@x.io")
        @@ ("activity" :> << Act("click"), Act("open"), Act("click") >>),
      ("email_address" :> "bob@x.io"),
      ("activity" :> << Act("bounce") >>),
      ("email_address" :> "bob@x.io") @@ ("activity" :> << >>),
      ("email_address" :> "bob@x.io")
        @@ ("activity" :> << Act("open"), EmptyDict >>) }

RECURSIVE SeqsUpTo(_, _)
SeqsUpTo(S, n) ==
    IF n = 0 THEN { << >> }
    ELSE LET shorter == SeqsUpTo(S, n - 1)
         IN  shorter \cup { Append(q, x) : q \in shorter, x \in S }

Audiences == SeqsUpTo(RecipientSamples, MaxAudience)

\* The report endpoint serves an audience in pages of DefaultCount records;
\* the page after the last record is empty.
RECURSIVE Paginate(_)
Paginate(aud) ==
    IF Len(aud) = 0 THEN << << >> >>
    ELSE IF Len(aud) <= DefaultCount THEN << aud, << >> >>
    ELSE << SubSeq(aud, 1, DefaultCount) >>
         \o Paginate(SubSeq(aud, DefaultCount + 1, Len(aud)))

\* Outcomes of one HTTP call.
Outcomes == {"ok", "non2xx", "timeout", "network"}

(***************************************************************************)
(* Helper functions of the service.                                        *)
(***************************************************************************)
Call(op, url, payload, ok) == [op |-> op, url |-> url, payload |-> payload, ok |-> ok]

\* get_mailchimp_list_info: the dict built from the list document, or {} when
\* requests raises (transport error, or raise_for_status on a non-2xx).
get_mailchimp_list_info(outcome, doc) ==
    IF outcome = "ok"
    THEN LET defaults == Get(doc, "campaign_defaults", EmptyDict)
             stats == Get(doc, "stats", EmptyDict)
         IN  [from_name |-> Get(defaults, "from_name", ""),
              from_email |-> Get(defaults, "from_email", ""),
              subject |-> Get(defaults, "subject", ""),
              language |-> Get(defaults, "language", ""),
              open_rate |-> Get(stats, "open_rate", 0),
              click_rate |-> Get(stats, "click_rate", 0)]
    ELSE EmptyDict

\* Variant without raise_for_status: the body of a failed call is used.
get_campaign_recipients_unchecked(outcome, pages) == pages[1]

\* get_campaign_recipients: one GET without count or offset, so the platform
\* answers with its first page; [] when requests raises.
get_campaign_recipients(outcome, pages) ==
    IF outcome = "ok" THEN pages[1] ELSE << >>

\* Variant without the try/except: a failed POST raises into the caller.
send_to_regal_uncaught(payload, outcome) ==
    [call |-> Call("POST", "events", payload, outcome = "ok"),
     raised |-> outcome # "ok"]

\* send_to_regal: one POST; a RequestException is caught and logged, so the
\* call never raises into the caller, whose loop ignores the returned value.
send_to_regal(payload, outcome) ==
    [call |-> Call("POST", "events", payload, outcome = "ok"), raised |-> FALSE]

\* activity[k]["action"] raises KeyError for an entry without that key.
RaisesKeyError(activity) ==
    \E k \in 1..Len(activity) : "action" \notin DOMAIN activity[k]

\* Variant that records presence only: 1 when the action occurs at all.
CountActionPresence(activity, a) ==
    IF \E k \in 1..Len(activity) : activity[k]["action"] = a THEN 1 ELSE 0

\* sum(1 for action in activity if action["action"] == a)
RECURSIVE CountAction(_, _)
CountAction(activity, a) ==
    IF Len(activity) = 0 THEN 0
    ELSE (IF Head(activity)["action"] = a THEN 1 ELSE 0)
         + CountAction(Tail(activity), a)

\* The payload built for one campaign recipient.
CampaignPayload(recipient, info, name, id, subject) ==
    LET activity == Get(recipient, "activity", << >>)
        clicks == CountAction(activity, "click")
        opens == CountAction(activity, "open")
        bounces == CountAction(activity, "bounce")
    IN  [traits |->
            [email |-> Get(recipient, "email_address", ""),
             emailOptIn |-> [subscribed |-> TRUE],
             campaign_subject |-> subject,
             from_name |-> Get(info, "from_name", ""),
             from_email |-> Get(info, "from_email", ""),
             language |-> Get(info, "language", ""),
             open_rate |-> Get(info, "open_rate", 0),
             click_rate |-> Get(info, "click_rate", 0),
             clicked_link |-> IntVal(clicks),
             opened_email |-> IntVal(opens),
             bounced_email |-> IntVal(bounces)],
         name |-> name,
         properties |->
            [email_subject |-> subject,
             clicked_link |-> IntVal(clicks),
             opened_email |-> IntVal(opens),
             bounced_email |-> IntVal(bounces),
             campaign_id |-> id,
             open_rate |-> Get(info, "open_rate", 0),
             click_rate |-> Get(info, "click_rate", 0)],
         eventSource |-> "MailChimp"]

\* The payload built from the inline fields of the webhook body.
InlinePayload(prof, cnt, name, opt_in) ==
    [traits |->
        [phone |-> prof.phone,
         emails |-> (prof.email :> [emailOptIn |-> [subscribed |-> opt_in]]),
         firstName |-> prof.first_name,
         lastName |-> prof.last_name,
         zip |-> prof.zip_code,
         state |-> prof.state,
         clicked_link |-> cnt.clicked_link,
         opened_email |-> cnt.opened_email,
         bounced_email |-> cnt.bounced_email,
         marked_as_spam |-> cnt.marked_as_spam],
     name |-> name,
     properties |->
        [clicked_link |-> cnt.clicked_link,
         opened_email |-> cnt.opened_email,
         bounced_email |-> cnt.bounced_email,
         marked_as_spam |-> cnt.marked_as_spam],
     eventSource |-> "MailChimp"]

\* The if/elif chain on event_type: the locals each branch binds.
EventName(t) ==
    CASE t = "subscribe" -> "User Subscribed"
      [] t = "unsubscribe" -> "User Unsubscribed"
      [] t = "profile" -> "Profile Updated"
      [] t = "open" -> "Email Opened"
      [] t = "click" -> "Link Clicked"
      [] t = "bounce" -> "Email Bounced"
      [] t = "campaign" -> "Campaign Sent"
      [] OTHER -> ""

BindsEventName(t) ==
    t \in {"subscribe", "unsubscribe", "profile", "open", "click", "bounce", "campaign"}

BindsOptIn(t) == t \in {"subscribe", "unsubscribe", "profile"}

OptIn(t) == t \in {"subscribe", "profile"}

(***************************************************************************)
(* The handler home(), one action per step.                                *)
(***************************************************************************)
NoProfile == [email |-> "", first_name |-> "", last_name |-> "", phone |-> "",
              zip_code |-> "", state |-> ""]

NoCounters == [clicked_link |-> IntVal(0), opened_email |-> IntVal(0),
               bounced_email |-> IntVal(0), marked_as_spam |-> IntVal(0)]

NoResult == [status |-> 0, message |-> ""]

Init ==
    /\ request \in Requests
    /\ pc = "start"
    /\ data = EmptyDict
    /\ event_type = ""
    /\ mailchimp_list_info = EmptyDict
    /\ profile = NoProfile
    /\ counters = NoCounters
    /\ bound = {}
    /\ event_name = ""
    /\ email_opt_in = FALSE
    /\ campaign_id = ""
    /\ campaign_subject = ""
    /\ report = << >>
    /\ recipients = << >>
    /\ idx = 0
    /\ calls = << >>
    /\ result = NoResult
    /\ exception = ""

Return(status, message) ==
    /\ pc' = "returned"
    /\ result' = [status |-> status, message |-> message]

Raise(e) ==
    /\ pc' = "crashed"
    /\ exception' = e

\* Lines 28-43: the GET probe, the content-type switch and the body parse.
Receive ==
    /\ pc = "start"
    /\ IF request.method = "GET"
       THEN /\ Return(200, "GET request received, Mailchimp verification success.")
            /\ UNCHANGED data
       ELSE IF request.content_type \in {"application/json",
                                         "application/x-www-form-urlencoded"}
       THEN /\ data' = request.body
            /\ pc' = "list_info"
            /\ UNCHANGED result
       ELSE /\ Return(415, "Unsupported Media Type")
            /\ UNCHANGED data
    /\ UNCHANGED << request, event_type, mailchimp_list_info, profile, counters,
                    bound, event_name, email_opt_in, campaign_id, campaign_subject,
                    report, recipients, idx, calls, exception >>

\* Lines 52-53: event_type and the list metadata fetch.
FetchListInfo ==
    /\ pc = "list_info"
    /\ event_type' = Get(data, "type", "unknown")
    /\ \E outcome \in Outcomes, doc \in ListDocuments :
          /\ mailchimp_list_info' = get_mailchimp_list_info(outcome, doc)
          /\ calls' = Append(calls, Call("GET", "lists", EmptyDict, outcome = "ok"))
    /\ pc' = "extract"
    /\ UNCHANGED << request, data, profile, counters, bound, event_name,
                    email_opt_in, campaign_id, campaign_subject, report,
                    recipients, idx, result, exception >>

\* Lines 56-65: the inline fields; int() raises ValueError on a non-integer.
Extract ==
    /\ pc = "extract"
    /\ profile' = [email |-> Get(data, "data[email]", ""),
                   first_name |-> Get(data, "data[merges][FNAME]", ""),
                   last_name |-> Get(data, "data[merges][LNAME]", ""),
                   phone |-> Get(data, "data[merges][PHONE]", ""),
                   zip_code |-> Get(data, "data[merges][MMERGE12]", ""),
                   state |-> Get(data, "data[merges][MMERGE21]", "")]
    /\ LET c9 == Get(data, "data[merges][MMERGE9]", << "0" >>)
       IN  IF IsIntLiteral(c9)
           THEN /\ counters' =
                     [clicked_link |-> IntVal(IntOf(c9)),
                      opened_email |->
                          StrVal(Get(data, "data[merges][MMERGE8]", << "0" >>)),
                      bounced_email |->
                          StrVal(Get(data, "data[merges][MMERGE10]", << "0" >>)),
                      marked_as_spam |->
                          StrVal(Get(data, "data[merges][MMERGE11]", << "0" >>))]
                /\ pc' = "dispatch"
                /\ UNCHANGED exception
           ELSE /\ Raise("ValueError")
                /\ UNCHANGED counters
    /\ UNCHANGED << request, data, event_type, mailchimp_list_info, bound,
                    event_name, email_opt_in, campaign_id, campaign_subject,
                    report, recipients, idx, calls, result >>

\* Lines 68-94: the if/elif chain; no branch for any other event type.
Dispatch ==
    /\ pc = "dispatch"
    /\ bound' = (IF BindsEventName(event_type) THEN {"event_name"} ELSE {})
                 \cup (IF BindsOptIn(event_type) THEN {"email_opt_in"} ELSE {})
    /\ event_name' = EventName(event_type)
    /\ email_opt_in' = OptIn(event_type)
    /\ IF event_type = "campaign"
       THEN /\ campaign_id' = Get(data, "data[id]", "")
            /\ campaign_subject' = Get(data, "data[subject]", "")
            /\ pc' = "fetch_recipients"
       ELSE /\ pc' = "build"
            /\ UNCHANGED << campaign_id, campaign_subject >>
    /\ UNCHANGED << request, data, event_type, mailchimp_list_info, profile,
                    counters, report, recipients, idx, calls, result, exception >>

\* Line 96: the recipient fetch; the platform holds some audience's report.
FetchRecipients ==
    /\ pc = "fetch_recipients"
    /\ \E outcome \in Outcomes, aud \in Audiences :
          /\ report' = Paginate(aud)
          /\ recipients' = get_campaign_recipients(outcome, Paginate(aud))
          /\ calls' = Append(calls,
                          Call("GET", "email-activity", EmptyDict, outcome = "ok"))
    /\ idx' = 1
    /\ pc' = "loop"
    /\ UNCHANGED << request, data, event_type, mailchimp_list_info, profile,
                    counters, bound, event_name, email_opt_in, campaign_id,
                    campaign_subject, result, exception >>

\* Lines 98-132: one pass of the for loop: build the payload of recipient idx
\* (KeyError on an activity entry without "action") and post it.
LoopStep ==
    /\ pc = "loop"
    /\ idx <= Len(recipients)
    /\ LET recipient == recipients[idx]
       IN  IF RaisesKeyError(Get(recipient, "activity", << >>))
           THEN /\ Raise("KeyError")
                /\ UNCHANGED << idx, calls >>
           ELSE \E outcome \in Outcomes :
                  LET sent == send_to_regal(
                                 CampaignPayload(recipient, mailchimp_list_info,
                                                 event_name, campaign_id,
                                                 campaign_subject),
                                 outcome)
                  IN  /\ calls' = Append(calls, sent.call)
                      /\ IF sent.raised
                         THEN /\ Raise("RequestException")
                              /\ UNCHANGED idx
                         ELSE /\ idx' = idx + 1
                              /\ UNCHANGED << pc, exception >>
    /\ UNCHANGED << request, data, event_type, mailchimp_list_info, profile,
                    counters, bound, event_name, email_opt_in, campaign_id,
                    campaign_subject, report, recipients, result >>

\* Line 134: the loop is exhausted.
LoopExit ==
    /\ pc = "loop"
    /\ idx > Len(recipients)
    /\ Return(200, "Campaign processed")
    /\ UNCHANGED << request, data, event_type, mailchimp_list_info, profile,
                    counters, bound, event_name, email_opt_in, campaign_id,
                    campaign_subject, report, recipients, idx, calls, exception >>

\* Lines 139-171: the inline payload (UnboundLocalError when a branch left
\* email_opt_in or event_name unbound) and its delivery.
BuildAndSend ==
    /\ pc = "build"
    /\ IF {"email_opt_in", "event_name"} \subseteq bound
       THEN \E outcome \in Outcomes :
              LET sent == send_to_regal(
                             InlinePayload(profile, counters, event_name,
                                           email_opt_in),
                             outcome)
              IN  /\ calls' = Append(calls, sent.call)
                  /\ IF sent.raised
                     THEN Raise("RequestException")
                     ELSE /\ pc' = "respond"
                          /\ UNCHANGED exception
       ELSE /\ Raise("UnboundLocalError")
            /\ UNCHANGED calls
    /\ UNCHANGED << request, data, event_type, mailchimp_list_info, profile,
                    counters, bound, event_name, email_opt_in, campaign_id,
                    campaign_subject, report, recipients, idx, result >>

\* Line 172: the return statement reads the name response, which home never
\* binds and the module never defines: NameError.
Respond ==
    /\ pc = "respond"
    /\ Raise("NameError")
    /\ UNCHANGED << request, data, event_type, mailchimp_list_info, profile,
                    counters, bound, event_name, email_opt_in, campaign_id,
                    campaign_subject, report, recipients, idx, calls, result >>

Next ==
    \/ Receive
    \/ FetchListInfo
    \/ Extract
    \/ Dispatch
    \/ FetchRecipients
    \/ LoopStep
    \/ LoopExit
    \/ BuildAndSend
    \/ Respond

Spec == Init /\ [][Next]_vars

Done == pc \in {"returned", "crashed"}

(***************************************************************************)
(* Vocabulary of the properties.                                           *)
(***************************************************************************)
IsPost(c) == c.op = "POST"
IsPause(c) == c.op = "sleep"
IsReportGet(c) == c.op = "GET" /\ c.url = "email-activity"

\* The delivery calls made so far, in order.
Posts == SelectSeq(calls, IsPost)

\* The request is a webhook POST with a content type the handler accepts.
Supported ==
    /\ request.method = "POST"
    /\ request.content_type \in {"application/json",
                                  "application/x-www-form-urlencoded"}

Kind == Get(request.body, "type", "unknown")

\* The inline click counter of the body is absent or an integer literal.
IntegerClickCounter ==
    IsIntLiteral(Get(request.body, "data[merges][MMERGE9]", << "0" >>))

\* The campaign run has fetched its recipients.
InCampaignLoop == event_type = "campaign" /\ idx >= 1

ListFetchFailed == Len(calls) >= 1 /\ calls[1].url = "lists" /\ ~calls[1].ok

RecipientFetchFailed ==
    Len(calls) >= 2 /\ calls[2].url = "email-activity" /\ ~calls[2].ok

RecipientFetchSucceeded ==
    Len(calls) >= 2 /\ calls[2].url = "email-activity" /\ calls[2].ok

RECURSIVE Flatten(_)
Flatten(pages) ==
    IF Len(pages) = 0 THEN << >> ELSE Head(pages) \o Flatten(Tail(pages))

\* Number of entries of an activity log with a given action.
Occurrences(activity, a) ==
    Cardinality({ j \in 1..Len(activity) : activity[j].action = a })

(***************************************************************************)
(* C1: every supported webhook POST of a catalogue kind emits one event    *)
(* per fetched recipient (campaign) or exactly one inline event (others).  *)
(* Stated for bodies whose click counter is an integer literal or absent.  *)
(***************************************************************************)
C1_OneEventPerKind ==
    (Done /\ Supported /\ Kind \in EventKinds /\ IntegerClickCounter)
        => IF Kind = "campaign"
           THEN Len(Posts) = Len(recipients)
           ELSE Len(Posts) = 1

(***************************************************************************)
(* C2: in a campaign run the delivery attempts are exactly the events of   *)
(* the recipients processed so far, one attempt each, in recipient order;  *)
(* no delivery outcome ends the run, and a run that returns has attempted  *)
(* the event of every recipient.                                           *)
(***************************************************************************)
C2_EachEventAttemptedOnceInOrder ==
    InCampaignLoop =>
        /\ Len(Posts) = idx - 1
        /\ idx - 1 <= Len(recipients)
        /\ \A k \in 1..Len(Posts) :
              Posts[k].payload =
                  CampaignPayload(recipients[k], mailchimp_list_info, event_name,
                                  campaign_id, campaign_subject)
        /\ pc = "returned" => Len(Posts) = Len(recipients)
        /\ pc = "crashed" => exception = "KeyError"

\* A returned batch whose first delivery failed and whose second succeeded.
C2_Witness ==
    /\ InCampaignLoop
    /\ pc = "returned"
    /\ Len(Posts) >= 2
    /\ ~Posts[1].ok
    /\ Posts[2].ok

(***************************************************************************)
(* C3: between any two successive delivery calls of one run a pacing delay *)
(* is performed: no two delivery calls are adjacent in the call log.       *)
(***************************************************************************)
C3_DelayBetweenDeliveries ==
    \A k \in 1..Len(calls), l \in 1..Len(calls) :
        (k < l /\ IsPost(calls[k]) /\ IsPost(calls[l]))
            => \E m \in (k + 1)..(l - 1) : IsPause(calls[m])

(***************************************************************************)
(* C4: a successful recipient fetch has requested every page of the report *)
(* up to and including the first empty one, and returns all its records.   *)
(***************************************************************************)
C4_FetchUntilEmptyPage ==
    (InCampaignLoop /\ RecipientFetchSucceeded) =>
        /\ Len(SelectSeq(calls, IsReportGet)) = Len(report)
        /\ recipients = Flatten(report)

(***************************************************************************)
(* C5: a failed read degrades to the empty value and raises nothing: a     *)
(* failed list-metadata fetch leaves the empty mapping, whose defaults the *)
(* campaign events carry; a failed recipient fetch leaves the empty list,  *)
(* and the campaign run makes no delivery call and returns 200.            *)
(***************************************************************************)
C5_ReadFailureDegradesToEmpty ==
    /\ ListFetchFailed =>
          /\ DOMAIN mailchimp_list_info = {}
          /\ exception # "RequestException"
          /\ InCampaignLoop =>
                \A k \in 1..Len(Posts) :
                    /\ Posts[k].payload.traits.from_name = ""
                    /\ Posts[k].payload.traits.open_rate = 0
                    /\ Posts[k].payload.properties.click_rate = 0
    /\ RecipientFetchFailed =>
          /\ recipients = << >>
          /\ Posts = << >>
          /\ pc \in {"loop", "returned"}
          /\ pc = "loop" => ENABLED LoopExit
          /\ pc = "returned" => result.status = 200

\* A campaign run that returned although the recipient fetch failed while
\* the platform held recipients.
C5_Witness ==
    /\ InCampaignLoop
    /\ RecipientFetchFailed
    /\ Len(Flatten(report)) >= 1
    /\ pc = "returned"

(***************************************************************************)
(* C6: every supported webhook run of a catalogue kind ends by returning a *)
(* response: once its delivery call has been made, whatever the outcome,   *)
(* the run never ends in an uncaught exception.                            *)
(***************************************************************************)
C6_RunReturnsResponse ==
    (Supported /\ Kind \in EventKinds /\ Len(Posts) >= 1) => pc # "crashed"

\* A float value, kept as its literal.
FloatVal(s) == [t |-> "float", n |-> 0, s |-> s]

IsFloatLiteral(s) ==
    /\ Len(s) >= 2
    /\ Cardinality({ k \in 1..Len(s) : s[k] = "." }) = 1
    /\ \A k \in 1..Len(s) : s[k] \in Digits \cup {"."}

\* The coercion the counters are to go through.
Coerced(s) ==
    IF IsIntLiteral(s) THEN IntVal(IntOf(s))
    ELSE IF IsFloatLiteral(s) THEN FloatVal(s)
    ELSE StrVal(s)

\* The counter local holds the coerced value of the body's field, if present.
CoercedFrom(local, key) == key \in DOMAIN data => local = Coerced(data[key])

(***************************************************************************)
(* C7: the inline counters are coerced: an integer literal to an integer,  *)
(* a literal with '.' to a float, anything else passed through, no error.  *)
(***************************************************************************)
C7_CountersCoerced ==
    /\ exception # "ValueError"
    /\ pc \in {"dispatch", "build", "respond"} =>
          /\ CoercedFrom(counters.clicked_link, "data[merges][MMERGE9]")
          /\ CoercedFrom(counters.opened_email, "data[merges][MMERGE8]")
          /\ CoercedFrom(counters.bounced_email, "data[merges][MMERGE10]")
          /\ CoercedFrom(counters.marked_as_spam, "data[merges][MMERGE11]")

(***************************************************************************)
(* C8: the events emitted in one campaign run carry pairwise different,    *)
(* non-empty recipient emails.                                             *)
(***************************************************************************)
C8_OneEventPerEmail ==
    InCampaignLoop =>
        /\ \A k \in 1..Len(Posts) : Posts[k].payload.traits.email # ""
        /\ \A k \in 1..Len(Posts), l \in 1..Len(Posts) :
              k # l => Posts[k].payload.traits.email # Posts[l].payload.traits.email

(***************************************************************************)
(* C9: a partial payload is never fatal: a campaign run ends by returning, *)
(* with one delivery attempt per fetched record, whatever fields the       *)
(* records lack.                                                           *)
(***************************************************************************)
C9_PartialRecordNeverFatal ==
    (InCampaignLoop /\ Done) =>
        /\ pc = "returned"
        /\ Len(Posts) = Len(recipients)

(***************************************************************************)
(* C10: each emitted campaign event carries, as opens, clicks and bounces, *)
(* the number of open, click and bounce entries of its recipient's         *)
(* activity log (never negative, whatever the order of the entries), and   *)
(* its properties repeat the counters of its traits.                       *)
(***************************************************************************)
C10_CountersMatchActivityLog ==
    InCampaignLoop =>
        \A k \in 1..Len(Posts) :
            LET activity == Get(recipients[k], "activity", << >>)
                traits == Posts[k].payload.traits
                props == Posts[k].payload.properties
            IN  /\ traits.opened_email = IntVal(Occurrences(activity, "open"))
                /\ traits.clicked_link = IntVal(Occurrences(activity, "click"))
                /\ traits.bounced_email = IntVal(Occurrences(activity, "bounce"))
                /\ traits.opened_email.n >= 0
                /\ traits.clicked_link.n >= 0
                /\ traits.bounced_email.n >= 0
                /\ props.opened_email = traits.opened_email
                /\ props.clicked_link = traits.clicked_link
                /\ props.bounced_email = traits.bounced_email

\* Two events of one run whose activity logs hold the same entries in a
\* different order, with one open and two clicks each.
C10_Witness ==
    /\ InCampaignLoop
    /\ Len(Posts) >= 2
    /\ Get(recipients[1], "activity", << >>) # Get(recipients[2], "activity", << >>)
    /\ \A k \in 1..2 :
          /\ Posts[k].payload.traits.opened_email = IntVal(1)
          /\ Posts[k].payload.properties.clicked_link = IntVal(2)
          /\ Posts[k].payload.traits.bounced_email = IntVal(0)

====
